---- MODULE Spec2Model ----
(***************************************************************************)
(* A model of spacerdesign.py (ImmunoNodes): the command-line driver that  *)
(* reads a peptide file and an allele file, sets up the Fred2               *)
(* EpitopeAssemblyWithSpacer solver, runs the approximate and/or the exact  *)
(* solver and writes the assembled string-of-beads to the output file.      *)
(*                                                                         *)
(* Text is modelled character by character: a string is a sequence of       *)
(* one-character strings, a file is the sequence of the lines that Python's *)
(* "for l in f" yields (each with its trailing newline, the last one        *)
(* possibly without).                                                       *)
(*                                                                         *)
(* The Fred2 library (Peptide, Allele, the predictor factories and the      *)
(* solver object) is not part of this program: its calls are steps whose    *)
(* outcome is chosen by the environment.                                    *)
(***************************************************************************)
EXTENDS Integers, Sequences, FiniteSets, TLC

VARIABLES
    argv,        \* the command line as given: what the caller typed
    cpu_count,   \* what mp.cpu_count() returns on this machine
    infile,      \* content of the file args.input, as a sequence of lines
    allelefile,  \* content of the file args.alleles, as a sequence of lines
    args,        \* the argparse Namespace (None before parse_args)
    pc,          \* position of main()
    pos,         \* number of lines the running "for l in f" loop has consumed
    peptides,    \* read_lines' list / main's peptides
    alleles,     \* generate_alleles' list / main's alleles
    thr,         \* main's thr dictionary (None before line 205)
    threads,     \* main's local threads (None before line 218)
    svbws,       \* main's local svbws (None before a solver returned)
    calls,       \* the calls made on the solver object, in order
    outfile,     \* the file at args.output
    status       \* how the process ended (running / exit code / exception)

vars == <<argv, cpu_count, infile, allelefile, args, pc, pos, peptides,
          alleles, thr, threads, svbws, calls, outfile, status>>

(***************************************************************************)
(* Python values                                                           *)
(***************************************************************************)
None == [tag |-> "None"]

IntVal(v) == [tag |-> "int", v |-> v]

List(items) == [tag |-> "list", items |-> items]

\* Python truth value of None, an int or a list
Truthy(v) ==
    CASE v.tag = "None" -> FALSE
      [] v.tag = "int"  -> v.v # 0
      [] v.tag = "list" -> Len(v.items) > 0

(***************************************************************************)
(* str methods, on sequences of characters                                 *)
(***************************************************************************)
\* the characters str.split() and str.strip() treat as whitespace
Whitespace == {" ", "\t", "\n", "\r", "\f"}

\* l.startswith(p)
startswith(l, p) == Len(l) >= Len(p) /\ SubSeq(l, 1, Len(p)) = p

\* number of leading whitespace characters of l
RECURSIVE LeadingWs(_)
LeadingWs(l) ==
    IF l = <<>> \/ l[1] \notin Whitespace THEN 0 ELSE 1 + LeadingWs(Tail(l))

\* number of trailing whitespace characters of l
RECURSIVE TrailingWs(_)
TrailingWs(l) ==
    IF l = <<>> \/ l[Len(l)] \notin Whitespace THEN 0
    ELSE 1 + TrailingWs(SubSeq(l, 1, Len(l) - 1))

\* l.strip()
strip(l) ==
    LET a == LeadingWs(l)
    IN  IF a = Len(l) THEN <<>> ELSE SubSeq(l, a + 1, Len(l) - TrailingWs(l))

\* length of the leading run of non-whitespace characters of l
RECURSIVE TokenLen(_)
TokenLen(l) ==
    IF l = <<>> \/ l[1] \in Whitespace THEN 0 ELSE 1 + TokenLen(Tail(l))

\* l.split(): the maximal runs of non-whitespace characters, left to right
RECURSIVE split(_)
split(l) ==
    LET s == SubSeq(l, LeadingWs(l) + 1, Len(l))
    IN  IF s = <<>> THEN <<>>
        ELSE LET n == TokenLen(s)
             IN  <<SubSeq(s, 1, n)>> \o split(SubSeq(s, n + 1, Len(s)))

\* l.replace(c, r) for a one-character c and a string r
RECURSIVE replace(_, _, _)
replace(l, c, r) ==
    IF l = <<>> THEN <<>>
    ELSE (IF l[1] = c THEN r ELSE <<l[1]>>) \o replace(Tail(l), c, r)

\* s.split(sep) for a non-empty separator: the pieces between the
\* occurrences of sep, found left to right without overlap
RECURSIVE splitOn(_, _)
splitOn(s, sep) ==
    LET hits == {i \in 1..(Len(s) - Len(sep) + 1) :
                    SubSeq(s, i, i + Len(sep) - 1) = sep}
    IN  IF hits = {} THEN <<s>>
        ELSE LET i == CHOOSE h \in hits : \A g \in hits : h <= g
             IN  <<SubSeq(s, 1, i - 1)>>
                 \o splitOn(SubSeq(s, i + Len(sep), Len(s)), sep)

Digits == {"0", "1", "2", "3", "4", "5", "6", "7", "8", "9"}

DigitValue(c) ==
    CASE c = "0" -> 0 [] c = "1" -> 1 [] c = "2" -> 2 [] c = "3" -> 3
      [] c = "4" -> 4 [] c = "5" -> 5 [] c = "6" -> 6 [] c = "7" -> 7
      [] c = "8" -> 8 [] c = "9" -> 9

\* value of a string of digits (0 for the empty string)
RECURSIVE DigitsValue(_)
DigitsValue(s) ==
    IF s = <<>> THEN 0
    ELSE 10 * DigitsValue(SubSeq(s, 1, Len(s) - 1)) + DigitValue(s[Len(s)])

\* a decimal mantissa * 10^-scale without trailing fractional zeros
RECURSIVE Normal(_, _)
Normal(mant, scale) ==
    IF scale > 0 /\ mant % 10 = 0 THEN Normal(mant \div 10, scale - 1)
    ELSE [mant |-> mant, scale |-> scale]

\* whether float(s) accepts s, for s over digits, "." and letters: at least
\* one digit, at most one ".", nothing else
FloatOk(s) ==
    /\ \A i \in 1..Len(s) : s[i] \in Digits \cup {"."}
    /\ \E i \in 1..Len(s) : s[i] \in Digits
    /\ Cardinality({i \in 1..Len(s) : s[i] = "."}) <= 1

\* float(s) where FloatOk(s): the number, as mantissa and decimal scale
float(s) ==
    LET dots == {i \in 1..Len(s) : s[i] = "."}
        d    == IF dots = {} THEN Len(s) + 1 ELSE CHOOSE i \in dots : TRUE
        frac == SubSeq(s, d + 1, Len(s))
    IN  Normal(DigitsValue(SubSeq(s, 1, d - 1) \o frac), Len(frac))

(***************************************************************************)
(* Fred2 objects                                                           *)
(***************************************************************************)
\* Peptide(pep): a peptide is identified by its sequence string
Peptide(pep) == [seq |-> pep]

\* Allele(al, prob=p): an HLA identifier with a probability weight
Allele(al, p) == [name |-> al, prob |-> p]

(***************************************************************************)
(* Texts of the program                                                    *)
(***************************************************************************)
Hash == <<"#">>

Epitope == <<"E", "p", "i", "t", "o", "p", "e">>

Sequence == <<"S", "e", "q", "u", "e", "n", "c", "e">>

HLA == <<"H", "L", "A", "-">>

ABC == {"A", "B", "C"}

(***************************************************************************)
(* How a run ends                                                          *)
(***************************************************************************)
Running == [kind |-> "running"]

Exit(code) == [kind |-> "exit", code |-> code]

Exception(name) == [kind |-> "exception", name |-> name]

\* an exception nobody catches: main() has no try/except, the process dies
Raise(name) == pc' = "raised" /\ status' = Exception(name)

(***************************************************************************)
(* read_lines                                                              *)
(***************************************************************************)
\* read_lines without its test for blank lines
IsPeptideLine_NoBlankTest(l) ==
    /\ ~startswith(l, Hash)
    /\ ~startswith(l, Epitope)
    /\ ~startswith(l, Sequence)

\* the condition of the if in read_lines: the line is not skipped
IsPeptideLine(l) ==
    /\ ~startswith(l, Hash)
    /\ strip(l) # <<>>
    /\ ~startswith(l, Epitope)
    /\ ~startswith(l, Sequence)

\* one iteration of "for l in f" in read_lines
ReadLine ==
    /\ pc = "read_lines"
    /\ pos < Len(infile)
    /\ pos' = pos + 1
    /\ LET l == infile[pos + 1]
       IN  IF IsPeptideLine(l)
           THEN IF split(l) = <<>>
                THEN /\ Raise("IndexError")
                     /\ UNCHANGED peptides
                ELSE /\ peptides' = Append(peptides, Peptide(strip(split(l)[1])))
                     /\ UNCHANGED <<pc, status>>
           ELSE UNCHANGED <<peptides, pc, status>>
    /\ UNCHANGED <<argv, cpu_count, infile, allelefile, args, alleles, thr,
                   threads, svbws, calls, outfile>>

\* the loop is over: read_lines returns peptides; main goes on to line 188
ReadLinesReturn ==
    /\ pc = "read_lines"
    /\ pos = Len(infile)
    /\ pc' = "generate_alleles"
    /\ pos' = 0
    /\ UNCHANGED <<argv, cpu_count, infile, allelefile, args, peptides, alleles,
                   thr, threads, svbws, calls, outfile, status>>

(***************************************************************************)
(* generate_alleles                                                        *)
(***************************************************************************)
\* l.replace(",", " ").replace(";", " ").replace("\n", "").split()
AlleleFields(l) ==
    split(replace(replace(replace(l, ",", <<" ">>), ";", <<" ">>), "\n", <<>>))

\* al.split("HLA-")[-1]
LocusSegment(al) ==
    LET parts == splitOn(al, HLA) IN parts[Len(parts)]

\* generate_alleles testing the identifier's first character, "HLA-" included
IsClassOne_WholeIdentifier(al) == al[1] \in ABC

\* the condition of the if in generate_alleles, where the segment is not empty
IsClassOne(al) == LocusSegment(al)[1] \in ABC

\* one iteration of "for l in f" in generate_alleles
AlleleLine ==
    /\ pc = "generate_alleles"
    /\ pos < Len(allelefile)
    /\ pos' = pos + 1
    /\ LET fields == AlleleFields(allelefile[pos + 1])
       IN  IF Len(fields) # 2
           THEN /\ Raise("ValueError")       \* al, freq = ... cannot unpack
                /\ UNCHANGED alleles
           ELSE LET al   == fields[1]
                    freq == fields[2]
                IN  IF LocusSegment(al) = <<>>
                    THEN /\ Raise("IndexError")      \* ""[0]
                         /\ UNCHANGED alleles
                    ELSE IF IsClassOne(al)
                    THEN IF ~FloatOk(freq)
                         THEN /\ Raise("ValueError")  \* float(freq)
                              /\ UNCHANGED alleles
                         ELSE /\ alleles' = Append(alleles, Allele(al, float(freq)))
                              /\ UNCHANGED <<pc, status>>
                    ELSE UNCHANGED <<alleles, pc, status>>
    /\ UNCHANGED <<argv, cpu_count, infile, allelefile, args, peptides, thr,
                   threads, svbws, calls, outfile>>

\* the loop is over: generate_alleles returns result; main goes on to line 190
GenerateAllelesReturn ==
    /\ pc = "generate_alleles"
    /\ pos = Len(allelefile)
    /\ pc' = "check_cleavage"
    /\ pos' = 0
    /\ UNCHANGED <<argv, cpu_count, infile, allelefile, args, peptides, alleles,
                   thr, threads, svbws, calls, outfile, status>>

(***************************************************************************)
(* main: the command line                                                  *)
(***************************************************************************)
StrVal(s) == [tag |-> "str", s |-> s]

\* choices= of -cp and of -ep
CleavageChoices == {"pcm", "proteasmm_c", "proteasmm_i"}

EpitopeChoices == {"syfpeithi", "smm", "smmpmbec", "bimas"}

\* the lists the two checks after parsing compare the upper-cased names with
CleavageSupported == {"PCM", "PROTEASMM_C", "PROTEASMM_I"}

EpitopeSupported == {"SYFPEITHI", "BIMAS", "SMM", "SMMPMBEC"}

\* default= of -p/--threads
DefaultThreads == 1

\* default= of -t/--threshold
DefaultThreshold == 20

\* s.upper(), for the method names a command line of the model can hold
upper(s) ==
    CASE s = "pcm"         -> "PCM"
      [] s = "proteasmm_c" -> "PROTEASMM_C"
      [] s = "proteasmm_i" -> "PROTEASMM_I"
      [] s = "syfpeithi"   -> "SYFPEITHI"
      [] s = "smm"         -> "SMM"
      [] s = "smmpmbec"    -> "SMMPMBEC"
      [] s = "bimas"       -> "BIMAS"
      [] s = "netchop"     -> "NETCHOP"
      [] s = "netmhc"      -> "NETMHC"
      [] OTHER             -> s

\* the Namespace parse_args builds from a command line argparse accepts
Namespace(av) ==
    [tag                 |-> "Namespace",
     approximate         |-> av.approximate,
     threads             |-> IF av.threads = None THEN IntVal(DefaultThreads)
                             ELSE av.threads,
     cleavage_prediction |-> IF av.cleavage_prediction = None THEN "pcm"
                             ELSE av.cleavage_prediction.s,
     epitope_prediction  |-> IF av.epitope_prediction = None THEN "syfpeithi"
                             ELSE av.epitope_prediction.s,
     threshold           |-> DefaultThreshold]

\* parser.parse_args(): argparse ends the process with status 2 when an
\* option's value is not among its choices
ParseArgs ==
    /\ pc = "parse_args"
    /\ IF \/ /\ argv.cleavage_prediction # None
             /\ argv.cleavage_prediction.s \notin CleavageChoices
          \/ /\ argv.epitope_prediction # None
             /\ argv.epitope_prediction.s \notin EpitopeChoices
       THEN /\ pc' = "exited"
            /\ status' = Exit(2)
            /\ UNCHANGED args
       ELSE /\ args' = Namespace(argv)
            /\ pc' = "read_lines"
            /\ UNCHANGED status
    /\ UNCHANGED <<argv, cpu_count, infile, allelefile, pos, peptides, alleles,
                   thr, threads, svbws, calls, outfile>>

\* if args.cleavage_prediction.upper() not in [...]: sys.exit(-1)
CheckCleavagePrediction ==
    /\ pc = "check_cleavage"
    /\ IF upper(args.cleavage_prediction) \notin CleavageSupported
       THEN pc' = "exited" /\ status' = Exit(-1)
       ELSE pc' = "check_epitope" /\ UNCHANGED status
    /\ UNCHANGED <<argv, cpu_count, infile, allelefile, args, pos, peptides,
                   alleles, thr, threads, svbws, calls, outfile>>

\* if args.epitope_prediction.upper() not in [...]: sys.exit(-1)
CheckEpitopePrediction ==
    /\ pc = "check_epitope"
    /\ IF upper(args.epitope_prediction) \notin EpitopeSupported
       THEN pc' = "exited" /\ status' = Exit(-1)
       ELSE pc' = "set_up" /\ UNCHANGED status
    /\ UNCHANGED <<argv, cpu_count, infile, allelefile, args, pos, peptides,
                   alleles, thr, threads, svbws, calls, outfile>>

(***************************************************************************)
(* main: the model set-up                                                  *)
(***************************************************************************)
Dict(f) == [tag |-> "dict", d |-> f]

\* {a.name: args.threshold for a in alleles}
ThresholdTable(als, threshold) ==
    Dict([n \in {als[i].name : i \in 1..Len(als)} |-> threshold])

\* the two predictor factories and thr
BuildThresholds ==
    /\ pc = "set_up"
    /\ thr' = ThresholdTable(alleles, args.threshold)
    /\ pc' = "construct"
    /\ UNCHANGED <<argv, cpu_count, infile, allelefile, args, pos, peptides,
                   alleles, threads, svbws, calls, outfile, status>>

\* what the library may answer to EpitopeAssemblyWithSpacer(...)
ConstructOutcomes == {"ok", "InvalidAlphabet", "EmptyInput"}

\* solver = EpitopeAssemblyWithSpacer(peptides, cl_pred, epi_pred, alleles, ...)
Construct ==
    /\ pc = "construct"
    /\ \E o \in ConstructOutcomes :
          IF o = "ok" THEN pc' = "choose_solver" /\ UNCHANGED status
          ELSE Raise(o)
    /\ UNCHANGED <<argv, cpu_count, infile, allelefile, args, pos, peptides,
                   alleles, thr, threads, svbws, calls, outfile>>

(***************************************************************************)
(* main: the solvers                                                       *)
(***************************************************************************)
Returned(v) == [kind |-> "return", value |-> v]

Raised(name) == [kind |-> "raise", name |-> name]

\* two assemblies a solver may return: epitopes and spacers in order
Assemblies ==
    {List(<< <<"A", "K">>, <<"G">>, <<"L", "V">> >>),
     List(<< <<"L", "V">>, <<"A", "K">> >>)}

\* the approximate solver returns an assembly, or nothing when the heuristic
\* backend is unavailable, or fails
ApproximateOutcomes ==
    {Returned(a) : a \in Assemblies \cup {None, List(<<>>)}}
    \cup {Raised(e) : e \in {"SolverTimeout", "SolverError",
                              "InvalidAlphabet", "EmptyInput"}}

\* the exact solver returns an assembly or fails
SolveOutcomes ==
    {Returned(a) : a \in Assemblies}
    \cup {Raised(e) : e \in {"Infeasible", "SolverTimeout", "SolverError",
                              "InvalidAlphabet", "EmptyInput"}}

\* options={"preprocess":"off", "threads":1}
Options == [preprocess |-> "off", threads |-> 1]

Call(fn, o) == [fn |-> fn, threads |-> threads, options |-> Options, outcome |-> o]

\* threads = mp.cpu_count() if args.threads is None else args.threads
WorkerCount(a) == IF a.threads = None THEN IntVal(cpu_count) ELSE a.threads

\* line 218, and the branch on args.approximate
ChooseSolver ==
    /\ pc = "choose_solver"
    /\ threads' = WorkerCount(args)
    /\ pc' = IF args.approximate THEN "approximate" ELSE "solve"
    /\ UNCHANGED <<argv, cpu_count, infile, allelefile, args, pos, peptides,
                   alleles, thr, svbws, calls, outfile, status>>

\* main with the test after solver.approximate inverted: if svbws
AfterApproximate_Inverted(v) == IF Truthy(v) THEN "solve" ELSE "write"

\* main without the fallback: whatever solver.approximate returned is written
AfterApproximate_NoFallback(v) == "write"

\* where main goes after solver.approximate returned v: if not svbws
AfterApproximate(v) == IF ~Truthy(v) THEN "solve" ELSE "write"

\* main catching a solver failure of solver.approximate and going on to
\* solver.solve
Approximate_Recovering ==
    /\ pc = "approximate"
    /\ \E o \in ApproximateOutcomes :
          /\ calls' = Append(calls, Call("approximate", o))
          /\ IF o.kind = "raise"
             THEN IF o.name \in {"SolverTimeout", "SolverError"}
                  THEN pc' = "solve" /\ UNCHANGED <<svbws, status>>
                  ELSE Raise(o.name) /\ UNCHANGED svbws
             ELSE /\ svbws' = o.value
                  /\ pc' = AfterApproximate(o.value)
                  /\ UNCHANGED status
    /\ UNCHANGED <<argv, cpu_count, infile, allelefile, args, pos, peptides,
                   alleles, thr, threads, outfile>>

\* svbws = solver.approximate(...); if not svbws: ...
Approximate ==
    /\ pc = "approximate"
    /\ \E o \in ApproximateOutcomes :
          /\ calls' = Append(calls, Call("approximate", o))
          /\ IF o.kind = "raise"
             THEN Raise(o.name) /\ UNCHANGED svbws
             ELSE /\ svbws' = o.value
                  /\ pc' = AfterApproximate(o.value)
                  /\ UNCHANGED status
    /\ UNCHANGED <<argv, cpu_count, infile, allelefile, args, pos, peptides,
                   alleles, thr, threads, outfile>>

\* svbws = solver.solve(...), on line 222 as on line 224
Solve ==
    /\ pc = "solve"
    /\ \E o \in SolveOutcomes :
          /\ calls' = Append(calls, Call("solve", o))
          /\ IF o.kind = "raise"
             THEN Raise(o.name) /\ UNCHANGED svbws
             ELSE /\ svbws' = o.value
                  /\ pc' = "write"
                  /\ UNCHANGED status
    /\ UNCHANGED <<argv, cpu_count, infile, allelefile, args, pos, peptides,
                   alleles, thr, threads, outfile>>

(***************************************************************************)
(* main: the output                                                        *)
(***************************************************************************)
\* the output path before the run: whatever was there, never opened
Untouched == [opened |-> FALSE, content |-> << <<"o", "l", "d">> >>]

Header == <<">", "a", "s", "s", "e", "m", "b", "l", "e", "d", "_", "s", "p",
            "a", "c", "e", "r", "_", "d", "e", "s", "i", "g", "n", "\n">>

\* "".join(items)
RECURSIVE Join(_)
Join(items) == IF items = <<>> THEN <<>> ELSE Head(items) \o Join(Tail(items))

\* with open(args.output, "w") as f: the two writes; map() over None raises
WriteOutput ==
    /\ pc = "write"
    /\ IF svbws.tag = "list"
       THEN /\ outfile' = [opened |-> TRUE, content |-> <<Header, Join(svbws.items)>>]
            /\ pc' = "return"
            /\ UNCHANGED status
       ELSE /\ outfile' = [opened |-> TRUE, content |-> <<Header>>]
            /\ Raise("TypeError")
    /\ UNCHANGED <<argv, cpu_count, infile, allelefile, args, pos, peptides,
                   alleles, thr, threads, svbws, calls>>

\* return 0, and sys.exit(main())
Return ==
    /\ pc = "return"
    /\ pc' = "exited"
    /\ status' = Exit(0)
    /\ UNCHANGED <<argv, cpu_count, infile, allelefile, args, pos, peptides,
                   alleles, thr, threads, svbws, calls, outfile>>

(***************************************************************************)
(* Inputs                                                                  *)
(***************************************************************************)
\* most lines a file of the two reader specifications has
MaxLines == 2

NL == <<"\n">>

\* the files of at most MaxLines lines whose lines, without their newline,
\* are in bodies; every line ends with a newline, the last one may not, and
\* no line is the empty string
Files(bodies) ==
    {[i \in 1..n |-> IF i < n \/ nl THEN b[i] \o NL ELSE b[i]] :
        <<n, b, nl>> \in {t \in UNION {{n} \X [1..n -> bodies] \X BOOLEAN :
                                        n \in 0..MaxLines} :
                            t[3] \/ (t[1] > 0 /\ t[2][t[1]] # <<>>)}}

\* peptide-file lines: a start, a first word, a rest
PeptideLineBodies ==
    {p \o w \o r : p \in {<<>>, Hash, <<" ">>, Epitope, Sequence, <<"E", "p">>},
                   w \in {<<>>, <<"A", "K">>, <<"#">>},
                   r \in {<<>>, <<"\t", "L">>}}

\* allele identifiers: with and without "HLA-", class I and not, and with
\* nothing after "HLA-"
AlleleIds ==
    {p \o q : p \in {<<>>, HLA, <<"A">> \o HLA, <<"D">> \o HLA, HLA \o HLA},
              q \in {<<>>, <<"A", "*">>, <<"B">>, <<"C">>, <<"D">>}}

\* allele-file lines: the pairs with each separator, some frequencies, and
\* lines that hold no pair
AlleleLineBodies ==
    {a \o <<",", "1">> : a \in AlleleIds}
    \cup {HLA \o <<"A">> \o s \o <<".", "5">> : s \in {<<";">>, <<" ">>, <<",", "\t">>}}
    \cup {HLA \o <<"A", ";">> \o f : f \in {<<"0", ".", "5", "0">>, <<"x">>}}
    \cup {HLA \o <<"D", ";", "x">>,
          HLA \o <<"B">>,
          HLA \o <<"B", ",", "1", ",", "1">>,
          <<>>}

\* the peptide files of the whole-program specification
MainInputFiles ==
    {<< <<"A", "K", "\n">>, <<"L", "V", " ", "1", "\n">> >>,
     << <<"#", "c", "\n">>, <<"\n">>, <<"A", "K">> >>,
     << >>}

\* the allele files of the whole-program specification
MainAlleleFiles ==
    {<< HLA \o <<"A", ",", "1", "\n">>, HLA \o <<"D", ";", "1", "\n">> >>,
     << HLA \o <<"B", " ", ".", "5", "\n">> >>,
     << HLA \o <<",", "1", "\n">> >>,
     << HLA \o <<"C", "\n">> >>}

\* the command lines: -apx or not, -p or not, -cp and -ep given or not
CommandLines ==
    [approximate         : BOOLEAN,
     threads             : {None, IntVal(1), IntVal(4)},
     cleavage_prediction : {None, StrVal("proteasmm_c"), StrVal("PCM"),
                            StrVal("netchop")},
     epitope_prediction  : {None, StrVal("smm"), StrVal("netmhc")}]

\* a command line with the required options only
PlainCommandLine ==
    [approximate |-> FALSE, threads |-> None,
     cleavage_prediction |-> None, epitope_prediction |-> None]

CpuCounts == {1, 4}

(***************************************************************************)
(* Specifications                                                          *)
(***************************************************************************)
\* the locals of main before it runs
Fresh ==
    /\ pos = 0
    /\ peptides = <<>>
    /\ alleles = <<>>
    /\ thr = None
    /\ threads = None
    /\ svbws = None
    /\ calls = <<>>
    /\ outfile = Untouched
    /\ status = Running

\* the whole program, from the command line to the exit
Init ==
    /\ argv \in CommandLines
    /\ cpu_count \in CpuCounts
    /\ infile \in MainInputFiles
    /\ allelefile \in MainAlleleFiles
    /\ args = None
    /\ pc = "parse_args"
    /\ Fresh

Next ==
    \/ ParseArgs
    \/ ReadLine
    \/ ReadLinesReturn
    \/ AlleleLine
    \/ GenerateAllelesReturn
    \/ CheckCleavagePrediction
    \/ CheckEpitopePrediction
    \/ BuildThresholds
    \/ Construct
    \/ ChooseSolver
    \/ Approximate
    \/ Solve
    \/ WriteOutput
    \/ Return

Spec == Init /\ [][Next]_vars

\* read_lines on every peptide file of the bounds
InitRead ==
    /\ argv = PlainCommandLine
    /\ cpu_count = 1
    /\ infile \in Files(PeptideLineBodies)
    /\ allelefile = <<>>
    /\ args = Namespace(argv)
    /\ pc = "read_lines"
    /\ Fresh

NextRead == ReadLine \/ ReadLinesReturn

SpecRead == InitRead /\ [][NextRead]_vars

\* generate_alleles, and the threshold table, on every allele file of the bounds
InitAlleles ==
    /\ argv = PlainCommandLine
    /\ cpu_count = 1
    /\ infile = <<>>
    /\ allelefile \in Files(AlleleLineBodies)
    /\ args = Namespace(argv)
    /\ pc = "generate_alleles"
    /\ Fresh

NextAlleles ==
    \/ AlleleLine
    \/ GenerateAllelesReturn
    \/ CheckCleavagePrediction
    \/ CheckEpitopePrediction
    \/ BuildThresholds

SpecAlleles == InitAlleles /\ [][NextAlleles]_vars

(***************************************************************************)
(* The orchestration of the two solvers                                    *)
(***************************************************************************)
\* the orchestration (lines 218-224) was entered and has left the solvers
OrchestrationOver == threads # None /\ pc \notin {"approximate", "solve"}

\* the approximate solver was invoked and returned v
ApproximateReturned(v) ==
    /\ Len(calls) >= 1
    /\ calls[1].fn = "approximate"
    /\ calls[1].outcome = Returned(v)

\* C1: the approximate solver is invoked only if approximate-first was
\* requested, and only as the first call; without the request the exact
\* solver is the one call made; after the approximate solver returned
\* Unavailable (None or an empty list) the exact solver is invoked next; after
\* it returned an assembly the exact solver is never invoked and that
\* assembly is the result that is written.
C1_Orchestration ==
    /\ \A i \in 1..Len(calls) :
          calls[i].fn = "approximate" => argv.approximate /\ i = 1
    /\ Len(calls) <= 2
    /\ ~argv.approximate /\ OrchestrationOver
          => Len(calls) = 1 /\ calls[1].fn = "solve"
    /\ \A v \in {None, List(<<>>)} :
          ApproximateReturned(v)
             => /\ Len(calls) = 1 => pc = "solve"
                /\ Len(calls) = 2 => calls[2].fn = "solve"
    /\ \A a \in Assemblies :
          ApproximateReturned(a)
             => /\ Len(calls) = 1
                /\ svbws = a
                /\ pc \in {"write", "return", "exited"}
                /\ outfile.opened
                      => outfile.content = <<Header, Join(a.items)>>

\* approximate-first, the backend unavailable, the exact solver's assembly
\* written and the run over
C1_Witness ==
    /\ status = Exit(0)
    /\ ApproximateReturned(None)
    /\ Len(calls) = 2
    /\ calls[2].outcome.kind = "return"

\* a run that ended in a fatal error
FatalEnd == pc = "raised" \/ (pc = "exited" /\ status # Exit(0))

\* C2: the output file is opened and written only after a solver returned an
\* assembly, which is what is written; a run that ends in a fatal error
\* leaves the output path as it was.
C2_NoOutputOnFatalError ==
    /\ outfile # Untouched
          => /\ svbws \in Assemblies
             /\ calls # <<>>
             /\ calls[Len(calls)].outcome = Returned(svbws)
             /\ outfile.content = <<Header, Join(svbws.items)>>
    /\ FatalEnd => outfile = Untouched

\* approximate-first, the backend unavailable, then the exact solver failed:
\* the run ended with that failure and the output path as it was
C2_Witness ==
    /\ pc = "raised"
    /\ Len(calls) = 2
    /\ calls[2].outcome = Raised("SolverError")
    /\ outfile = Untouched

\* C6: the worker count passed to the solver is the caller-supplied thread
\* count, and the number of logical cores when the caller supplied none.
C6_DefaultAllCores ==
    \A i \in 1..Len(calls) :
        calls[i].threads = IF argv.threads = None THEN IntVal(cpu_count)
                           ELSE argv.threads

\* C7 as stated: after the approximate solver failed with SolverTimeout or
\* SolverError the orchestrator goes on to the exact solver.
C7_FallbackOnSolverFailure ==
    \A e \in {"SolverTimeout", "SolverError"} :
        /\ Len(calls) >= 1
        /\ calls[1].fn = "approximate"
        /\ calls[1].outcome = Raised(e)
        => \/ pc = "solve"
           \/ Len(calls) >= 2 /\ calls[2].fn = "solve"

\* C7 as amended: a failure of the approximate solver, solver-level or not,
\* ends the run with that failure: the exact solver is not invoked and nothing
\* is written. The exact solver is invoked after the approximate one only
\* when the latter returned a false value (Unavailable), and its failure ends
\* the run as well.
C7_FailurePropagates ==
    /\ \A i \in 1..Len(calls) :
          calls[i].outcome.kind = "raise"
             => /\ i = Len(calls)
                /\ pc = "raised"
                /\ status = Exception(calls[i].outcome.name)
                /\ outfile = Untouched
    /\ Len(calls) >= 2
          => /\ calls[1].fn = "approximate"
             /\ calls[1].outcome.kind = "return"
             /\ ~Truthy(calls[1].outcome.value)
             /\ calls[2].fn = "solve"

\* the approximate solver timed out and the run ended there
C7_Witness ==
    /\ pc = "raised"
    /\ Len(calls) = 1
    /\ calls[1].fn = "approximate"
    /\ calls[1].outcome = Raised("SolverTimeout")
    /\ status = Exception("SolverTimeout")

(***************************************************************************)
(* The peptide reader                                                      *)
(***************************************************************************)
\* l begins with the characters of p
HasPrefix(l, p) == Len(l) >= Len(p) /\ \A i \in 1..Len(p) : l[i] = p[i]

\* l is blank: nothing but whitespace
Blank(l) == \A i \in 1..Len(l) : l[i] \in Whitespace

\* the lines the reader is to skip
Skipped(l) ==
    Blank(l) \/ HasPrefix(l, Hash) \/ HasPrefix(l, Epitope) \/ HasPrefix(l, Sequence)

\* the first whitespace-delimited token of a line that is not blank
FirstToken(l) ==
    LET i == CHOOSE a \in 1..Len(l) :
                 l[a] \notin Whitespace /\ \A k \in 1..(a - 1) : l[k] \in Whitespace
        j == CHOOSE b \in i..Len(l) :
                 /\ \A k \in i..b : l[k] \notin Whitespace
                 /\ b = Len(l) \/ l[b + 1] \in Whitespace
    IN  SubSeq(l, i, j)

NotSkipped(l) == ~Skipped(l)

\* C9: read_lines never fails, and the peptides it has collected are, in file
\* order, the first tokens of the lines read so far that are not skipped (of
\* all lines once it has returned).
C9_ReadLines ==
    /\ pc # "raised"
    /\ LET n    == IF pc = "read_lines" THEN pos ELSE Len(infile)
           kept == SelectSeq(SubSeq(infile, 1, n), NotSkipped)
       IN  /\ Len(peptides) = Len(kept)
           /\ \A i \in 1..Len(kept) : peptides[i] = Peptide(FirstToken(kept[i]))

\* read_lines returned: a header line was skipped, and a line that starts with
\* a blank gave the peptide after the blank
C9_Witness ==
    /\ pc = "generate_alleles"
    /\ Len(infile) = 2
    /\ HasPrefix(infile[1], Epitope)
    /\ infile[2] = <<" ", "A", "K", "\t", "L", "\n">>
    /\ peptides = <<Peptide(<<"A", "K">>)>>

(***************************************************************************)
(* The allele reader                                                       *)
(***************************************************************************)
\* what separates the allele from its frequency (and ends the line)
PairSeparators == {",", ";"} \cup Whitespace

\* where the fields of a line start: a character that does not separate, at
\* the start of the line or after one that does
FieldStarts(l) ==
    {i \in 1..Len(l) :
        l[i] \notin PairSeparators /\ (i = 1 \/ l[i - 1] \in PairSeparators)}

\* the field of l that starts at i: up to the next separator or the end
FieldAt(l, i) ==
    LET j == CHOOSE b \in i..Len(l) :
                 /\ \A k \in i..b : l[k] \notin PairSeparators
                 /\ b = Len(l) \/ l[b + 1] \in PairSeparators
    IN  SubSeq(l, i, j)

FirstField(l) ==
    LET st == FieldStarts(l)
    IN  FieldAt(l, CHOOSE i \in st : \A k \in st : i <= k)

LastField(l) ==
    LET st == FieldStarts(l)
    IN  FieldAt(l, CHOOSE i \in st : \A k \in st : i >= k)

\* what follows the last "HLA-" of an identifier (all of it when it has none)
AfterHLA(al) ==
    LET ends == {k \in 4..Len(al) : \A m \in 1..4 : al[k - 4 + m] = HLA[m]}
        last == IF ends = {} THEN 0
                ELSE CHOOSE k \in ends : \A m \in ends : m <= k
    IN  SubSeq(al, last + 1, Len(al))

\* the line holds one allele/frequency pair: two fields, a locus after "HLA-",
\* a number
HoldsPair(l) ==
    /\ Cardinality(FieldStarts(l)) = 2
    /\ AfterHLA(FirstField(l)) # <<>>
    /\ FloatOk(LastField(l))

ClassOnePair(l) == AfterHLA(FirstField(l))[1] \in {"A", "B", "C"}

\* C10: on a file whose lines each hold one allele/frequency pair,
\* generate_alleles does not fail and collects, in file order, exactly the
\* alleles whose segment after "HLA-" starts with A, B or C, each with its
\* frequency; the threshold table has exactly their names as keys (and the
\* threshold as every value).
C10_GenerateAlleles ==
    LET n    == IF pc \in {"generate_alleles", "raised"} THEN pos
                ELSE Len(allelefile)
        read == SubSeq(allelefile, 1, n)
        kept == SelectSeq(read, ClassOnePair)
    IN  (\A i \in 1..n : HoldsPair(read[i]))
           => /\ pc # "raised"
              /\ Len(alleles) = Len(kept)
              /\ \A i \in 1..Len(kept) :
                    alleles[i] = Allele(FirstField(kept[i]), float(LastField(kept[i])))
              /\ thr # None
                    => /\ DOMAIN thr.d = {FirstField(kept[i]) : i \in 1..Len(kept)}
                       /\ \A k \in DOMAIN thr.d : thr.d[k] = DefaultThreshold

\* the table is built from a file of two pairs: DHLA-C (kept: C follows
\* "HLA-") and one that was filtered out
C10_Witness ==
    /\ thr # None
    /\ Len(allelefile) = 2
    /\ \A i \in 1..2 : HoldsPair(allelefile[i])
    /\ ~ClassOnePair(allelefile[1])
    /\ alleles = <<Allele(<<"D">> \o HLA \o <<"C">>, [mant |-> 1, scale |-> 0])>>
    /\ DOMAIN thr.d = {<<"D">> \o HLA \o <<"C">>}
====
